---------------------------- MODULE Spec2Model ----------------------------
(***************************************************************************)
(* A model of the discrete-time thread simulator of src/script.js: Thread, *)
(* Semaphore, Monitor, CPUCore, Scheduler and SimulationEngine.            *)
(*                                                                         *)
(* Thread objects live in `heap` and are referred to by their index        *)
(* (a reference); Null is the absent reference.  The engine's collections  *)
(* hold references, as the JavaScript arrays do.                           *)
(*                                                                         *)
(* An instruction list is an input of addThread.  Thread.execute reads     *)
(* every entry of the list exactly once, in order.  An entry written       *)
(* AnyInstr stands for an arbitrary instruction: it is drawn from the      *)
(* instruction set of the specification in the tick that reads it, so a    *)
(* thread with n AnyInstr entries covers every instruction list of         *)
(* length n.  The demo scenarios use their concrete lists.                 *)
(***************************************************************************)
EXTENDS Integers, Sequences, FiniteSets, TLC

VARIABLES
    clockTick,          \* SimulationEngine.clockTick
    threads,            \* SimulationEngine.threads: references, insertion order
    readyQueue,         \* SimulationEngine.readyQueue
    blockedQueue,       \* SimulationEngine.blockedQueue
    terminatedThreads,  \* SimulationEngine.terminatedThreads
    cpuCores,           \* SimulationEngine.cpuCores: sequence of CPUCore records
    semaphores,         \* SimulationEngine.semaphores: name -> Semaphore record
    monitors,           \* SimulationEngine.monitors: name -> Monitor record
    scheduler,          \* SimulationEngine.scheduler: [algorithm, timeQuantum]
    threadingModel,     \* SimulationEngine.threadingModel
    userThreadCount,    \* SimulationEngine.userThreadCount
    kernelThreadCount,  \* SimulationEngine.kernelThreadCount
    nextId,             \* Thread.nextId (static)
    heap,               \* every Thread object constructed so far
    pending,            \* the setTimeout callbacks of addThread not yet run (FIFO)
    threw,              \* TRUE iff the latest tick() call raised a TypeError
    tickLog             \* the 'blocked' and 'preempted' entries that the latest
                        \* tick() call appended to eventLog

vars == <<clockTick, threads, readyQueue, blockedQueue, terminatedThreads,
          cpuCores, semaphores, monitors, scheduler, threadingModel,
          userThreadCount, kernelThreadCount, nextId, heap, pending, threw,
          tickLog>>

-----------------------------------------------------------------------------
(* Bounds of the model. *)

MaxThreads == 2

MaxLen == 2

MaxClock == 4

RRMaxLen == 3

RRMaxClock == 4

\* ticks that may pass before the last admission callback of a scenario has run
PCMaxEarlyTicks == 14

\* ticks allowed after that
PCTickBound == 21

\* threads added with the 'Add Thread' button, and ticks, in SpecPrio and SpecM2O
MaxCustomThreads == 3

CustomMaxClock == 5

\* thread objects created, instructions per thread and ticks since the last
\* reset in SpecReset
ResetMaxThreads == 2

ResetMaxLen == 2

ResetMaxClock == 2

\* threads, instructions per thread and ticks in SpecSem
SemMaxThreads == 3

SemMaxLen == 2

SemMaxClock == 5

\* threads, instructions per thread and ticks in SpecUnk
UnkMaxThreads == 2

UnkMaxLen == 2

UnkMaxClock == 3

\* threads, instructions per thread and ticks in SpecModels
ModelsMaxThreads == 3

ModelsMaxLen == 2

ModelsMaxClock == 4

\* threads, instructions per thread and the ticks during which admission
\* callbacks may still be outstanding in SpecCompute
ComputeMaxThreads == 3

ComputeMaxLen == 2

ComputeMaxEarlyTicks == 2

\* threads, instructions per thread and ticks in SpecMon
MonMaxThreads == 3

MonMaxLen == 3

MonMaxClock == 5

\* the same two bounds for the Dining Philosophers scenario
DPMaxEarlyTicks == 8

DPTickBound == 32

-----------------------------------------------------------------------------
(* Generic helpers on sequences. *)

Null == 0

Range(q) == { q[i] : i \in DOMAIN q }

InSeq(x, q) == \E i \in DOMAIN q : q[i] = x

Count(x, q) == Cardinality({ i \in DOMAIN q : q[i] = x })

RemoveAt(q, i) == [ j \in 1..(Len(q) - 1) |-> IF j < i THEN q[j] ELSE q[j + 1] ]

IndexOf(q, x) ==
    IF InSeq(x, q) THEN CHOOSE i \in DOMAIN q : q[i] = x /\ \A j \in 1..(i - 1) : q[j] # x
    ELSE 0

\* blockedQueue.indexOf(t); if (index > -1) splice(index, 1)
SpliceOut(q, x) == IF IndexOf(q, x) > 0 THEN RemoveAt(q, IndexOf(q, x)) ELSE q

EmptyMap == [ x \in {} |-> Null ]

-----------------------------------------------------------------------------
(* Instructions. *)

Compute == [type |-> "compute", resource |-> ""]

Instr(type, resource) == [type |-> type, resource |-> resource]

AnyInstr == [type |-> "any", resource |-> ""]

AnyProgram(n) == [ i \in 1..n |-> AnyInstr ]

-----------------------------------------------------------------------------
(* class Thread *)

Thread(id, priority, instructions) ==
    [ id |-> id,
      priority |-> priority,
      state |-> "NEW",
      instructions |-> instructions,
      currentInstruction |-> 0,
      arrivalTime |-> 0,
      burstTime |-> Len(instructions),
      remainingTime |-> Len(instructions),
      waitTime |-> 0,
      turnaroundTime |-> 0,
      completionTime |-> 0,
      timeInCurrentState |-> 0,
      quantum |-> 0,
      kernelThreadId |-> Null ]

\* Thread.execute, the branch that consumes an instruction
executeMutNoRemaining(th) ==
    [th EXCEPT !.currentInstruction = @ + 1, !.quantum = @ + 1]

execute(th) ==
    [th EXCEPT !.currentInstruction = @ + 1,
               !.remainingTime = @ - 1,
               !.quantum = @ + 1]

isComplete(th) == th.currentInstruction >= Len(th.instructions)

setState(th, newState) == [th EXCEPT !.state = newState, !.timeInCurrentState = 0]

ThreadTickMutRunning(th) ==
    [th EXCEPT !.timeInCurrentState = @ + 1,
               !.waitTime = IF th.state \in {"READY", "BLOCKED", "RUNNING"} THEN @ + 1 ELSE @]

ThreadTick(th) ==
    [th EXCEPT !.timeInCurrentState = @ + 1,
               !.waitTime = IF th.state \in {"READY", "BLOCKED"} THEN @ + 1 ELSE @]

-----------------------------------------------------------------------------
(* class Semaphore *)

Semaphore(initialValue) == [value |-> initialValue, waitQueue |-> <<>>]

\* wait(thread): the semaphore afterwards and the value returned
SemaphoreWaitMutLate(s, t) ==
    LET v == s.value - 1
    IN  IF v < -1
        THEN [sem |-> [value |-> v, waitQueue |-> Append(s.waitQueue, t)], ok |-> FALSE]
        ELSE [sem |-> [s EXCEPT !.value = v], ok |-> TRUE]

SemaphoreWait(s, t) ==
    LET v == s.value - 1
    IN  IF v < 0
        THEN [sem |-> [value |-> v, waitQueue |-> Append(s.waitQueue, t)], ok |-> FALSE]
        ELSE [sem |-> [s EXCEPT !.value = v], ok |-> TRUE]

\* signal(): the semaphore afterwards and the thread returned (Null for null)
SemaphoreSignalMutNoIncrement(s) ==
    IF Len(s.waitQueue) > 0
    THEN [sem |-> [value |-> s.value, waitQueue |-> Tail(s.waitQueue)],
          thread |-> Head(s.waitQueue)]
    ELSE [sem |-> [s EXCEPT !.value = @ + 1], thread |-> Null]

SemaphoreSignalMutLast(s) ==
    IF Len(s.waitQueue) > 0
    THEN [sem |-> [value |-> s.value + 1,
                   waitQueue |-> SubSeq(s.waitQueue, 1, Len(s.waitQueue) - 1)],
          thread |-> s.waitQueue[Len(s.waitQueue)]]
    ELSE [sem |-> [s EXCEPT !.value = @ + 1], thread |-> Null]

SemaphoreSignalMutNoWake(s) ==
    [sem |-> [s EXCEPT !.value = @ + 1], thread |-> Null]

SemaphoreSignal(s) ==
    IF Len(s.waitQueue) > 0
    THEN [sem |-> [value |-> s.value + 1, waitQueue |-> Tail(s.waitQueue)],
          thread |-> Head(s.waitQueue)]
    ELSE [sem |-> [s EXCEPT !.value = @ + 1], thread |-> Null]

-----------------------------------------------------------------------------
(* class Monitor *)

\* owner, entryQueue and conditionQueue are the fields of the class; `signaled`
\* is history: the threads signal() has dequeued that have not owned the
\* monitor since.  No operation reads it.
Monitor ==
    [owner |-> Null, entryQueue |-> <<>>, conditionQueue |-> <<>>, signaled |-> {}]

MonitorEnter(m, t) ==
    IF m.owner = Null
    THEN [mon |-> [m EXCEPT !.owner = t, !.signaled = @ \ {t}], ok |-> TRUE]
    ELSE [mon |-> [m EXCEPT !.entryQueue = Append(@, t)], ok |-> FALSE]

MonitorExitMutEntryFirst(m) ==
    IF Len(m.entryQueue) > 0
    THEN [mon |-> [m EXCEPT !.owner = Head(m.entryQueue),
                            !.entryQueue = Tail(@),
                            !.signaled = @ \ {Head(m.entryQueue)}],
          nextThread |-> Head(m.entryQueue), wasWaiting |-> FALSE]
    ELSE IF Len(m.conditionQueue) > 0
    THEN [mon |-> [m EXCEPT !.owner = Head(m.conditionQueue),
                            !.conditionQueue = Tail(@),
                            !.signaled = @ \ {Head(m.conditionQueue)}],
          nextThread |-> Head(m.conditionQueue), wasWaiting |-> TRUE]
    ELSE [mon |-> [m EXCEPT !.owner = Null], nextThread |-> Null, wasWaiting |-> FALSE]

MonitorExit(m) ==
    IF Len(m.conditionQueue) > 0
    THEN [mon |-> [m EXCEPT !.owner = Head(m.conditionQueue),
                            !.conditionQueue = Tail(@),
                            !.signaled = @ \ {Head(m.conditionQueue)}],
          nextThread |-> Head(m.conditionQueue), wasWaiting |-> TRUE]
    ELSE IF Len(m.entryQueue) > 0
    THEN [mon |-> [m EXCEPT !.owner = Head(m.entryQueue),
                            !.entryQueue = Tail(@),
                            !.signaled = @ \ {Head(m.entryQueue)}],
          nextThread |-> Head(m.entryQueue), wasWaiting |-> FALSE]
    ELSE [mon |-> [m EXCEPT !.owner = Null], nextThread |-> Null, wasWaiting |-> FALSE]

MonitorWaitMutNoHandOver(m, t) ==
    IF m.owner = t
    THEN [mon |-> [owner |-> Null,
                   entryQueue |-> m.entryQueue,
                   conditionQueue |-> Append(m.conditionQueue, t),
                   signaled |-> m.signaled],
          nextThread |-> Null, currentBlocked |-> TRUE]
    ELSE [mon |-> m, nextThread |-> Null, currentBlocked |-> FALSE]

MonitorWaitMutNoOwnerCheck(m, t) ==
    IF Len(m.entryQueue) > 0
    THEN [mon |-> [owner |-> Head(m.entryQueue),
                   entryQueue |-> Tail(m.entryQueue),
                   conditionQueue |-> Append(m.conditionQueue, t),
                   signaled |-> m.signaled \ {Head(m.entryQueue)}],
          nextThread |-> Head(m.entryQueue), currentBlocked |-> TRUE]
    ELSE [mon |-> [owner |-> Null,
                   entryQueue |-> m.entryQueue,
                   conditionQueue |-> Append(m.conditionQueue, t),
                   signaled |-> m.signaled],
          nextThread |-> Null, currentBlocked |-> TRUE]

MonitorWait(m, t) ==
    IF m.owner = t
    THEN IF Len(m.entryQueue) > 0
         THEN [mon |-> [owner |-> Head(m.entryQueue),
                        entryQueue |-> Tail(m.entryQueue),
                        conditionQueue |-> Append(m.conditionQueue, t),
                        signaled |-> m.signaled \ {Head(m.entryQueue)}],
               nextThread |-> Head(m.entryQueue), currentBlocked |-> TRUE]
         ELSE [mon |-> [owner |-> Null,
                        entryQueue |-> m.entryQueue,
                        conditionQueue |-> Append(m.conditionQueue, t),
                        signaled |-> m.signaled],
               nextThread |-> Null, currentBlocked |-> TRUE]
    ELSE [mon |-> m, nextThread |-> Null, currentBlocked |-> FALSE]

MonitorSignalMutNoShift(m) ==
    IF Len(m.conditionQueue) > 0
    THEN [mon |-> [m EXCEPT !.signaled = @ \cup {Head(m.conditionQueue)}],
          thread |-> Head(m.conditionQueue)]
    ELSE [mon |-> m, thread |-> Null]

MonitorSignal(m) ==
    IF Len(m.conditionQueue) > 0
    THEN [mon |-> [m EXCEPT !.conditionQueue = Tail(@),
                            !.signaled = @ \cup {Head(m.conditionQueue)}],
          thread |-> Head(m.conditionQueue)]
    ELSE [mon |-> m, thread |-> Null]

-----------------------------------------------------------------------------
(* class CPUCore *)

CPUCore == [currentThread |-> Null, isIdle |-> TRUE, totalBusyTime |-> 0]

releaseThread(core) == [core EXCEPT !.currentThread = Null, !.isIdle = TRUE]

CoreTick(core) == IF ~core.isIdle THEN [core EXCEPT !.totalBusyTime = @ + 1] ELSE core

\* this.cpuCores.find(c => c.currentThread === thread): its index, 0 when none
FindCore(cores, t) ==
    IF \E i \in DOMAIN cores : cores[i].currentThread = t
    THEN CHOOSE i \in DOMAIN cores :
            cores[i].currentThread = t /\ \A j \in 1..(i - 1) : cores[j].currentThread # t
    ELSE 0

-----------------------------------------------------------------------------
(* class Scheduler *)

Scheduler(algorithm, timeQuantum) == [algorithm |-> algorithm, timeQuantum |-> timeQuantum]

\* the scan of the 'priority' case: the loop from position i on, best so far at b
RECURSIVE PriorityScanMutLast(_, _, _, _)
PriorityScanMutLast(q, h, i, b) ==
    IF i > Len(q) THEN b
    ELSE PriorityScanMutLast(q, h, i + 1,
            IF h[q[i]].priority >= h[q[b]].priority THEN i ELSE b)

RECURSIVE PriorityScan(_, _, _, _)
PriorityScan(q, h, i, b) ==
    IF i > Len(q) THEN b
    ELSE PriorityScan(q, h, i + 1, IF h[q[i]].priority > h[q[b]].priority THEN i ELSE b)

\* selectNextThread on a non-empty queue: the thread returned and the queue left
selectNextThread(sch, q, h) ==
    IF sch.algorithm = "priority"
    THEN LET k == PriorityScan(q, h, 2, 1)
         IN  [thread |-> q[k], queue |-> RemoveAt(q, k)]
    ELSE [thread |-> Head(q), queue |-> Tail(q)]

shouldPreemptMutAnyAlgorithm(sch, th) == th.quantum >= sch.timeQuantum

shouldPreemptMutEarly(sch, th) ==
    IF sch.algorithm = "round-robin" THEN th.quantum + 1 >= sch.timeQuantum ELSE FALSE

shouldPreempt(sch, th) ==
    IF sch.algorithm = "round-robin" THEN th.quantum >= sch.timeQuantum ELSE FALSE

-----------------------------------------------------------------------------
(* class SimulationEngine.  The operators below work on a record e of the  *)
(* parts of the engine that one tick() changes:                            *)
(*   heap, readyQueue, blockedQueue, terminatedThreads, cpuCores,          *)
(*   semaphores, monitors, threw, tickLog.                                 *)

\* this.log(message, level), for the messages kept in tickLog
LogEntry(kind, t) == [kind |-> kind, thread |-> t]

moveToReadyMutNoPush(e, t) ==
    [e EXCEPT !.heap[t] = setState(@, "READY")]

moveToReady(e, t) ==
    [e EXCEPT !.heap[t] = setState(@, "READY"),
              !.readyQueue = Append(@, t)]

moveToBlocked(e, t) ==
    [e EXCEPT !.heap[t] = setState(@, "BLOCKED"),
              !.blockedQueue = IF InSeq(t, @) THEN @ ELSE Append(@, t),
              !.tickLog = Append(@, LogEntry("blocked", t))]

moveToTerminated(e, t, clock) ==
    LET th == setState(e.heap[t], "TERMINATED")
    IN  [e EXCEPT !.heap[t] = [th EXCEPT !.completionTime = clock,
                                         !.turnaroundTime = clock - th.arrivalTime],
                  !.terminatedThreads = Append(@, t)]

\* const core = this.cpuCores.find(c => c.currentThread === thread);
\* if (core) core.releaseThread();  this.moveToBlocked(thread, ...)
BlockThread(e, t) ==
    LET c == FindCore(e.cpuCores, t)
        e1 == IF c > 0 THEN [e EXCEPT !.cpuCores[c] = releaseThread(@)] ELSE e
    IN  moveToBlocked(e1, t)

\* if (t) { splice t out of blockedQueue; this.moveToReady(t) }
Unblock(e, t) ==
    IF t = Null THEN e
    ELSE moveToReady([e EXCEPT !.blockedQueue = SpliceOut(@, t)], t)

executeInstructionMutNoGuard(e, t, instruction) ==
    LET r == instruction.resource
    IN
    CASE instruction.type = "wait" ->
            IF r \in DOMAIN e.semaphores
            THEN LET w == SemaphoreWait(e.semaphores[r], t)
                     e1 == [e EXCEPT !.semaphores[r] = w.sem]
                 IN  IF ~w.ok THEN BlockThread(e1, t) ELSE e1
            ELSE BlockThread(e, t)
      [] instruction.type = "signal" ->
            IF r \in DOMAIN e.semaphores
            THEN LET g == SemaphoreSignal(e.semaphores[r])
                 IN  Unblock([e EXCEPT !.semaphores[r] = g.sem], g.thread)
            ELSE e
      [] instruction.type = "enter-monitor" ->
            IF r \in DOMAIN e.monitors
            THEN LET w == MonitorEnter(e.monitors[r], t)
                     e1 == [e EXCEPT !.monitors[r] = w.mon]
                 IN  IF ~w.ok THEN BlockThread(e1, t) ELSE e1
            ELSE e
      [] instruction.type = "exit-monitor" ->
            IF r \in DOMAIN e.monitors
            THEN LET x == MonitorExit(e.monitors[r])
                 IN  Unblock([e EXCEPT !.monitors[r] = x.mon], x.nextThread)
            ELSE e
      [] instruction.type = "monitor-wait" ->
            IF r \in DOMAIN e.monitors
            THEN LET w == MonitorWait(e.monitors[r], t)
                     e1 == [e EXCEPT !.monitors[r] = w.mon]
                     e2 == IF w.currentBlocked THEN BlockThread(e1, t) ELSE e1
                 IN  Unblock(e2, w.nextThread)
            ELSE e
      [] instruction.type = "monitor-signal" ->
            IF r \in DOMAIN e.monitors
            THEN LET g == MonitorSignal(e.monitors[r])
                 IN  Unblock([e EXCEPT !.monitors[r] = g.mon], g.thread)
            ELSE e
      [] OTHER -> e

executeInstruction(e, t, instruction) ==
    LET r == instruction.resource
    IN
    CASE instruction.type = "wait" ->
            IF r \in DOMAIN e.semaphores
            THEN LET w == SemaphoreWait(e.semaphores[r], t)
                     e1 == [e EXCEPT !.semaphores[r] = w.sem]
                 IN  IF ~w.ok THEN BlockThread(e1, t) ELSE e1
            ELSE e
      [] instruction.type = "signal" ->
            IF r \in DOMAIN e.semaphores
            THEN LET g == SemaphoreSignal(e.semaphores[r])
                 IN  Unblock([e EXCEPT !.semaphores[r] = g.sem], g.thread)
            ELSE e
      [] instruction.type = "enter-monitor" ->
            IF r \in DOMAIN e.monitors
            THEN LET w == MonitorEnter(e.monitors[r], t)
                     e1 == [e EXCEPT !.monitors[r] = w.mon]
                 IN  IF ~w.ok THEN BlockThread(e1, t) ELSE e1
            ELSE e
      [] instruction.type = "exit-monitor" ->
            IF r \in DOMAIN e.monitors
            THEN LET x == MonitorExit(e.monitors[r])
                 IN  Unblock([e EXCEPT !.monitors[r] = x.mon], x.nextThread)
            ELSE e
      [] instruction.type = "monitor-wait" ->
            IF r \in DOMAIN e.monitors
            THEN LET w == MonitorWait(e.monitors[r], t)
                     e1 == [e EXCEPT !.monitors[r] = w.mon]
                     e2 == IF w.currentBlocked THEN BlockThread(e1, t) ELSE e1
                 IN  Unblock(e2, w.nextThread)
            ELSE e
      [] instruction.type = "monitor-signal" ->
            IF r \in DOMAIN e.monitors
            THEN LET g == MonitorSignal(e.monitors[r])
                 IN  Unblock([e EXCEPT !.monitors[r] = g.mon], g.thread)
            ELSE e
      [] OTHER -> e

\* tick(), the body of the first cpuCores.forEach for core c; `input` is the
\* instruction read when the entry of the list is AnyInstr
ExecCore(e, c, clock, input) ==
    LET core == CoreTick(e.cpuCores[c])
        e1 == [e EXCEPT !.cpuCores[c] = core]
    IN
    IF core.isIdle \/ core.currentThread = Null THEN e1
    ELSE
    LET t == core.currentThread
        th == e1.heap[t]
        done == th.currentInstruction >= Len(th.instructions)
        slot == th.instructions[th.currentInstruction + 1]
        instruction == IF slot = AnyInstr THEN input ELSE slot
        e2 == IF done THEN e1
              ELSE executeInstruction([e1 EXCEPT !.heap[t] = execute(th)], t, instruction)
    IN
    IF done \/ isComplete(e2.heap[t])
    THEN moveToTerminated([e2 EXCEPT !.cpuCores[c] = releaseThread(@)], t, clock)
    ELSE IF shouldPreempt(scheduler, e2.heap[t])
    THEN LET preemptedThread == e2.cpuCores[c].currentThread
             e3 == [e2 EXCEPT !.cpuCores[c] = releaseThread(@)]
         IN  IF preemptedThread = Null
             THEN [e3 EXCEPT !.threw = TRUE]   \* null.quantum = 0: TypeError
             ELSE LET e4 == moveToReady([e3 EXCEPT !.heap[preemptedThread].quantum = 0],
                                        preemptedThread)
                  IN  [e4 EXCEPT !.tickLog = Append(@, LogEntry("preempted", preemptedThread))]
    ELSE e2

\* the first forEach: cores in ascending order; an exception ends the tick
\* (cores c..last here; the forEach is ExecCores(e, 1, Len(e.cpuCores), ...))
RECURSIVE ExecCores(_, _, _, _, _)
ExecCores(e, c, last, clock, inputs) ==
    IF c > last \/ e.threw THEN e
    ELSE ExecCores(ExecCore(e, c, clock, inputs[c]), c + 1, last, clock, inputs)

\* if (threadingModel === 'many-to-one') { availableCores = idle cores;
\*   for (i = 1; ...) availableCores[i].isIdle = true; }
ManyToOneAdjust(e) ==
    IF threadingModel = "many-to-one"
    THEN LET idle == { i \in DOMAIN e.cpuCores : e.cpuCores[i].isIdle }
             first == IF idle = {} THEN 0 ELSE CHOOSE i \in idle : \A j \in idle : i <= j
         IN  [e EXCEPT !.cpuCores =
                 [ i \in DOMAIN e.cpuCores |->
                     IF i \in idle /\ i # first
                     THEN [e.cpuCores[i] EXCEPT !.isIdle = TRUE]
                     ELSE e.cpuCores[i] ]]
    ELSE e

\* CPUCore.assignThread on core c
assignThread(e, c, t) ==
    [e EXCEPT !.cpuCores[c] = [@ EXCEPT !.currentThread = t, !.isIdle = FALSE],
              !.heap[t] = setState(@, "RUNNING")]

\* the second forEach, body for core c
DispatchCoreMutKeepsOne(e, c) ==
    IF e.cpuCores[c].isIdle /\ Len(e.readyQueue) > 1
    THEN LET sel == selectNextThread(scheduler, e.readyQueue, e.heap)
             e1 == [e EXCEPT !.readyQueue = sel.queue,
                             !.heap[sel.thread].quantum = 0]
         IN  assignThread(e1, c, sel.thread)
    ELSE e

DispatchCore(e, c) ==
    IF e.cpuCores[c].isIdle /\ Len(e.readyQueue) > 0
    THEN LET sel == selectNextThread(scheduler, e.readyQueue, e.heap)
             e1 == [e EXCEPT !.readyQueue = sel.queue,
                             !.heap[sel.thread].quantum = 0]
         IN  assignThread(e1, c, sel.thread)
    ELSE e

RECURSIVE DispatchCores(_, _)
DispatchCores(e, c) ==
    IF c > Len(e.cpuCores) THEN e ELSE DispatchCores(DispatchCore(e, c), c + 1)

\* this.threads.forEach(thread => thread.tick())
TickThreads(h) ==
    [ r \in DOMAIN h |-> IF InSeq(r, threads) THEN ThreadTick(h[r]) ELSE h[r] ]

\* the engine inside tick(), as a record: after clockTick++ and the threads'
\* tick(), and after the first forEach has served cores 1..k
TickStart ==
    [ heap |-> TickThreads(heap),
      readyQueue |-> readyQueue,
      blockedQueue |-> blockedQueue,
      terminatedThreads |-> terminatedThreads,
      cpuCores |-> cpuCores,
      semaphores |-> semaphores,
      monitors |-> monitors,
      threw |-> FALSE,
      tickLog |-> <<>> ]

TickAfterCore(k, inputs) == ExecCores(TickStart, 1, k, clockTick + 1, inputs)

\* the engine after tick(), as a record
TickResult(inputs) ==
    LET e1 == TickAfterCore(Len(cpuCores), inputs)
    IN  IF e1.threw THEN e1 ELSE DispatchCores(ManyToOneAdjust(e1), 1)

\* tick()
Tick(inputs) ==
    LET e == TickResult(inputs)
    IN  /\ clockTick' = clockTick + 1
        /\ heap' = e.heap
        /\ readyQueue' = e.readyQueue
        /\ blockedQueue' = e.blockedQueue
        /\ terminatedThreads' = e.terminatedThreads
        /\ cpuCores' = e.cpuCores
        /\ semaphores' = e.semaphores
        /\ monitors' = e.monitors
        /\ threw' = e.threw
        /\ tickLog' = e.tickLog
        /\ UNCHANGED <<threads, scheduler, threadingModel, userThreadCount,
                       kernelThreadCount, nextId, pending>>

\* mapThreadToKernel: [kernelThreadId, kernelThreadCount] for the thread being
\* admitted, given the threading model, userThreadCount (after its increment),
\* kernelThreadCount and cpuCores.length
mapThreadToKernel(model, users, kernels, numCores) ==
    CASE model = "one-to-one" -> [id |-> kernels + 1, count |-> kernels + 1]
      [] model = "many-to-one" -> [id |-> 1, count |-> IF kernels = 0 THEN 1 ELSE kernels]
      [] model = "many-to-many" ->
            LET k == (users % numCores) + 1
            IN  [id |-> k, count |-> IF k > kernels THEN k ELSE kernels]
      [] OTHER -> [id |-> Null, count |-> kernels]

\* new Thread(name, priority, instructions) followed by engine.addThread(thread)
AddThread(priority, instructions) ==
    LET t == Len(heap) + 1
        k == mapThreadToKernel(threadingModel, userThreadCount + 1,
                               kernelThreadCount, Len(cpuCores))
        th == [Thread(nextId, priority, instructions) EXCEPT
                 !.arrivalTime = clockTick, !.kernelThreadId = k.id]
    IN  /\ heap' = Append(heap, setState(th, "NEW"))
        /\ nextId' = nextId + 1
        /\ threads' = Append(threads, t)
        /\ userThreadCount' = userThreadCount + 1
        /\ kernelThreadCount' = k.count
        /\ pending' = Append(pending, t)
        /\ UNCHANGED <<clockTick, readyQueue, blockedQueue, terminatedThreads,
                       cpuCores, semaphores, monitors, scheduler, threadingModel,
                       threw, tickLog>>

\* the callback addThread hands to setTimeout:
\* if (thread.state === 'NEW') this.moveToReady(thread)
AdmitCallback ==
    /\ pending # <<>>
    /\ LET t == Head(pending)
       IN  IF heap[t].state = "NEW"
           THEN /\ heap' = [heap EXCEPT ![t] = setState(@, "READY")]
                /\ readyQueue' = Append(readyQueue, t)
           ELSE UNCHANGED <<heap, readyQueue>>
    /\ pending' = Tail(pending)
    /\ UNCHANGED <<clockTick, threads, blockedQueue, terminatedThreads, cpuCores,
                   semaphores, monitors, scheduler, threadingModel,
                   userThreadCount, kernelThreadCount, nextId, threw, tickLog>>

\* the threads of a scenario, each [priority, instructions], constructed and
\* passed to addThread one after the other at clock 0: heap and kernelThreadCount
RECURSIVE AddThreads(_, _, _)
AddThreads(model, numCores, list) ==
    IF list = <<>> THEN [heap |-> <<>>, kernelThreadCount |-> 0]
    ELSE LET n == Len(list)
             prev == AddThreads(model, numCores, SubSeq(list, 1, n - 1))
             k == mapThreadToKernel(model, n, prev.kernelThreadCount, numCores)
             th == [Thread(n, list[n].priority, list[n].instructions) EXCEPT
                      !.kernelThreadId = k.id]
         IN  [heap |-> Append(prev.heap, th), kernelThreadCount |-> k.count]

\* the engine after initialize(numCores, schedulingAlgo, timeQuantum, model),
\* addSemaphore / addMonitor for the registries sems and mons, and addThread for
\* the threads of list, none of whose setTimeout callbacks has run yet
Loaded(numCores, schedulingAlgo, timeQuantum, model, sems, mons, list) ==
    LET a == AddThreads(model, numCores, list)
    IN  /\ clockTick = 0
        /\ threads = [ i \in 1..Len(list) |-> i ]
        /\ readyQueue = <<>>
        /\ blockedQueue = <<>>
        /\ terminatedThreads = <<>>
        /\ cpuCores = [ i \in 1..numCores |-> CPUCore ]
        /\ semaphores = sems
        /\ monitors = mons
        /\ scheduler = Scheduler(schedulingAlgo, timeQuantum)
        /\ threadingModel = model
        /\ userThreadCount = Len(list)
        /\ kernelThreadCount = a.kernelThreadCount
        /\ nextId = Len(list) + 1
        /\ heap = a.heap
        /\ pending = [ i \in 1..Len(list) |-> i ]
        /\ threw = FALSE
        /\ tickLog = <<>>

-----------------------------------------------------------------------------
(* The engine with one semaphore "s" and threads of arbitrary instruction  *)
(* lists over compute, wait s and signal s.                                *)

CoreCounts == {1, 2}

Algorithms == {"fcfs", "priority", "round-robin"}

Quanta == {1, 2}

ThreadingModels == {"one-to-one"}

SemInitialValues == {0, 1}

DefaultPriority == 5

InstrSet == {Compute, Instr("wait", "s"), Instr("signal", "s")}

Init ==
    \E n \in CoreCounts, a \in Algorithms, q \in Quanta, m \in ThreadingModels,
       v \in SemInitialValues :
        Loaded(n, a, q, m, [ x \in {"s"} |-> Semaphore(v) ], EmptyMap, <<>>)

AddAnyThread ==
    /\ Len(heap) < MaxThreads
    /\ \E n \in 0..MaxLen : AddThread(DefaultPriority, AnyProgram(n))

TickAny ==
    /\ clockTick < MaxClock
    /\ \E inputs \in [DOMAIN cpuCores -> InstrSet] : Tick(inputs)

Next == AddAnyThread \/ AdmitCallback \/ TickAny

Spec == Init /\ [][Next]_vars

-----------------------------------------------------------------------------
(* Round-robin: the engine of Spec under 'round-robin' only, with longer   *)
(* instruction lists, so that a thread can spend a whole quantum and go on.*)

InitRR ==
    \E n \in CoreCounts, q \in Quanta, v \in SemInitialValues :
        Loaded(n, "round-robin", q, "one-to-one",
               [ x \in {"s"} |-> Semaphore(v) ], EmptyMap, <<>>)

AddRRThread ==
    /\ Len(heap) < MaxThreads
    /\ \E n \in 0..RRMaxLen : AddThread(DefaultPriority, AnyProgram(n))

TickRR ==
    /\ clockTick < RRMaxClock
    /\ \E inputs \in [DOMAIN cpuCores -> InstrSet] : Tick(inputs)

NextRR == AddRRThread \/ AdmitCallback \/ TickRR

SpecRR == InitRR /\ [][NextRR]_vars

-----------------------------------------------------------------------------
(* DemoScenarios.producerConsumer: the engine once the scenario is loaded. *)
(* The two admission callbacks run in the order of their addThread calls,  *)
(* at any time relative to the ticks.                                      *)

ProducerInstructions ==
    << Instr("wait", "empty"), Instr("wait", "buffer"), Compute, Compute,
       Instr("signal", "buffer"), Instr("signal", "full"),
       Instr("wait", "empty"), Instr("wait", "buffer"), Compute, Compute,
       Instr("signal", "buffer"), Instr("signal", "full") >>

ConsumerInstructions ==
    << Instr("wait", "full"), Instr("wait", "buffer"), Compute, Compute,
       Instr("signal", "buffer"), Instr("signal", "empty"),
       Instr("wait", "full"), Instr("wait", "buffer"), Compute, Compute,
       Instr("signal", "buffer"), Instr("signal", "empty") >>

Producer == 1

Consumer == 2

InitPC ==
    Loaded(2, "round-robin", 3, "one-to-one",
           ("buffer" :> Semaphore(1)) @@ ("empty" :> Semaphore(5)) @@ ("full" :> Semaphore(0)),
           EmptyMap,
           << [priority |-> 7, instructions |-> ProducerInstructions],
              [priority |-> 6, instructions |-> ConsumerInstructions] >>)

\* the scenarios' lists hold no AnyInstr entry: nothing is drawn
NoInputs == [ c \in DOMAIN cpuCores |-> Compute ]

TickPC ==
    /\ clockTick < (IF pending # <<>> THEN PCMaxEarlyTicks
                                      ELSE PCMaxEarlyTicks + PCTickBound)
    /\ Tick(NoInputs)

NextPC == AdmitCallback \/ TickPC

SpecPC == InitPC /\ [][NextPC]_vars

-----------------------------------------------------------------------------
(* DemoScenarios.diningPhilosophers: the engine once the scenario is       *)
(* loaded.  Thread i + 1 is Philosopher i.                                 *)

Philosophers == 0..4

ForkName(i) == << "fork0", "fork1", "fork2", "fork3", "fork4" >>[i + 1]

leftFork(i) == ForkName(i)

rightFork(i) == ForkName((i + 1) % 5)

PhilosopherInstructions(i) ==
    << Compute, Instr("wait", leftFork(i)), Instr("wait", rightFork(i)),
       Compute, Compute, Compute,
       Instr("signal", rightFork(i)), Instr("signal", leftFork(i)),
       Compute, Compute >>

Forks == [ x \in { ForkName(i) : i \in Philosophers } |-> Semaphore(1) ]

InitDPMutFiveCores ==
    Loaded(5, "priority", 3, "one-to-one", Forks, EmptyMap,
           [ n \in 1..5 |-> [priority |-> 5 + (n - 1),
                             instructions |-> PhilosopherInstructions(n - 1)] ])

InitDP ==
    Loaded(3, "priority", 3, "one-to-one", Forks, EmptyMap,
           [ n \in 1..5 |-> [priority |-> 5 + (n - 1),
                             instructions |-> PhilosopherInstructions(n - 1)] ])

TickDP ==
    /\ clockTick < (IF pending # <<>> THEN DPMaxEarlyTicks
                                      ELSE DPMaxEarlyTicks + DPTickBound)
    /\ Tick(NoInputs)

NextDP == AdmitCallback \/ TickDP

SpecDP == InitDP /\ [][NextDP]_vars

-----------------------------------------------------------------------------
(* Threads added by addCustomThread (five compute instructions, a priority *)
(* read from the page), under the priority algorithm (SpecPrio) and under  *)
(* the many-to-one threading model with four cores (SpecM2O).              *)

CustomInstructions == << Compute, Compute, Compute, Compute, Compute >>

Priorities == {1, 2, 3}

addCustomThread ==
    /\ Len(heap) < MaxCustomThreads
    /\ \E p \in Priorities : AddThread(p, CustomInstructions)

TickCustom ==
    /\ clockTick < CustomMaxClock
    /\ Tick(NoInputs)

NextCustom == addCustomThread \/ AdmitCallback \/ TickCustom

InitPrio ==
    \E n \in CoreCounts :
        Loaded(n, "priority", 3, "one-to-one", EmptyMap, EmptyMap, <<>>)

SpecPrio == InitPrio /\ [][NextCustom]_vars

InitM2O ==
    \E a \in Algorithms :
        Loaded(4, a, 3, "many-to-one", EmptyMap, EmptyMap, <<>>)

SpecM2O == InitM2O /\ [][NextCustom]_vars

-----------------------------------------------------------------------------
(* The engine with one monitor "m" and threads of arbitrary instruction    *)
(* lists over compute and the four monitor instructions on m.              *)

MonInstrSet ==
    { Compute, Instr("enter-monitor", "m"), Instr("exit-monitor", "m"),
      Instr("monitor-wait", "m"), Instr("monitor-signal", "m") }

\* with equal priorities 'priority' selects as 'fcfs' does
MonAlgorithms == {"fcfs", "round-robin"}

InitMon ==
    \E n \in CoreCounts, a \in MonAlgorithms, q \in Quanta :
        Loaded(n, a, q, "one-to-one", EmptyMap, [ x \in {"m"} |-> Monitor ], <<>>)

\* the threads are added before the first tick; their admission callbacks run
\* at any time
AddMonThread ==
    /\ clockTick = 0
    /\ Len(heap) < MonMaxThreads
    /\ \E n \in 0..MonMaxLen : AddThread(DefaultPriority, AnyProgram(n))

\* core c reads an instruction in the next tick: it holds a thread that has
\* instructions left (no other core's instruction changes that within a tick)
Reads(c) ==
    /\ ~cpuCores[c].isIdle
    /\ cpuCores[c].currentThread # Null
    /\ ~isComplete(heap[cpuCores[c].currentThread])

\* one instruction of S for every core that reads one
InputsFrom(S) ==
    { f \in [DOMAIN cpuCores -> S \cup {Compute}] :
        \A c \in DOMAIN cpuCores : ~Reads(c) => f[c] = Compute }

TickMon ==
    /\ clockTick < MonMaxClock
    /\ \E inputs \in InputsFrom(MonInstrSet) : Tick(inputs)

NextMon == AddMonThread \/ AdmitCallback \/ TickMon

SpecMon == InitMon /\ [][NextMon]_vars

-----------------------------------------------------------------------------
(* The engine with one semaphore "s" and enough threads for two of them to *)
(* wait in its queue while a third signals.                                *)

InitSem ==
    \E n \in CoreCounts, a \in Algorithms, q \in Quanta, v \in SemInitialValues :
        Loaded(n, a, q, "one-to-one", [ x \in {"s"} |-> Semaphore(v) ], EmptyMap, <<>>)

AddSemThread ==
    /\ clockTick = 0
    /\ Len(heap) < SemMaxThreads
    /\ \E n \in 0..SemMaxLen : AddThread(DefaultPriority, AnyProgram(n))

TickSem ==
    /\ clockTick < SemMaxClock
    /\ \E inputs \in InputsFrom(InstrSet) : Tick(inputs)

NextSem == AddSemThread \/ AdmitCallback \/ TickSem

SpecSem == InitSem /\ [][NextSem]_vars

-----------------------------------------------------------------------------
(* The engine with semaphore "s" and monitor "m" and threads whose          *)
(* instructions name a resource that is not registered.                    *)

SyncTypes ==
    {"wait", "signal", "enter-monitor", "exit-monitor", "monitor-wait", "monitor-signal"}

UnknownResource == "nosuch"

\* the six synchronisation instructions on the unregistered name, and a wait
\* on the registered semaphore
UnkInstrSet ==
    { Instr(ty, UnknownResource) : ty \in SyncTypes } \cup { Instr("wait", "s") }

ProgramsOver(S, n) == UNION { [1..k -> S] : k \in 0..n }

InitUnk ==
    \E n \in CoreCounts, a \in Algorithms, q \in Quanta :
        Loaded(n, a, q, "one-to-one", [ x \in {"s"} |-> Semaphore(0) ],
               [ x \in {"m"} |-> Monitor ], <<>>)

AddUnkThread ==
    /\ clockTick = 0
    /\ Len(heap) < UnkMaxThreads
    /\ \E prog \in ProgramsOver(UnkInstrSet, UnkMaxLen) : AddThread(DefaultPriority, prog)

TickUnk ==
    /\ clockTick < UnkMaxClock
    /\ Tick(NoInputs)

NextUnk == AddUnkThread \/ AdmitCallback \/ TickUnk

SpecUnk == InitUnk /\ [][NextUnk]_vars

-----------------------------------------------------------------------------
(* The engine with one semaphore "s" under every algorithm and every       *)
(* threading model, with more threads than cores.                          *)

AllThreadingModels == {"one-to-one", "many-to-one", "many-to-many"}

InitModels ==
    \E n \in CoreCounts, a \in Algorithms, q \in Quanta, m \in AllThreadingModels :
        Loaded(n, a, q, m, [ x \in {"s"} |-> Semaphore(0) ], EmptyMap, <<>>)

AddModelsThread ==
    /\ clockTick = 0
    /\ Len(heap) < ModelsMaxThreads
    /\ \E n \in 0..ModelsMaxLen : AddThread(DefaultPriority, AnyProgram(n))

TickModels ==
    /\ clockTick < ModelsMaxClock
    /\ \E inputs \in InputsFrom(InstrSet) : Tick(inputs)

NextModels == AddModelsThread \/ AdmitCallback \/ TickModels

SpecModels == InitModels /\ [][NextModels]_vars

-----------------------------------------------------------------------------
(* The engine with threads of compute instructions only, of any priority,  *)
(* under every algorithm.  The threads are added before the first tick;    *)
(* each admission callback runs at some point of the first                 *)
(* ComputeMaxEarlyTicks ticks, and the ticks go on for ComputeTickBound    *)
(* more.                                                                   *)

ComputeProgram(n) == [ i \in 1..n |-> Compute ]

\* one tick to dispatch, and one tick per instruction (one for a thread that
\* has none)
ComputeTickBound == 1 + ComputeMaxThreads * ComputeMaxLen

InitCompute ==
    \E n \in CoreCounts, a \in Algorithms, q \in Quanta :
        Loaded(n, a, q, "one-to-one", EmptyMap, EmptyMap, <<>>)

AddComputeThread ==
    /\ clockTick = 0
    /\ Len(heap) < ComputeMaxThreads
    /\ \E p \in Priorities, n \in 0..ComputeMaxLen : AddThread(p, ComputeProgram(n))

TickCompute ==
    /\ clockTick < (IF pending # <<>> THEN ComputeMaxEarlyTicks
                                      ELSE ComputeMaxEarlyTicks + ComputeTickBound)
    /\ Tick(NoInputs)

NextCompute == AddComputeThread \/ AdmitCallback \/ TickCompute

SpecCompute == InitCompute /\ [][NextCompute]_vars

-----------------------------------------------------------------------------
(* The engine re-initialised at any moment: resetSimulation() of the page  *)
(* and the scenario loaders call reset() and initialize() on the one       *)
(* engine object.  The thread objects of the old run stay on the heap, and *)
(* the setTimeout callbacks of addThread are not cancelled.                *)

\* SimulationEngine.reset: the fields of the engine after the call
resetMutKeepsBlocked ==
    [ threads |-> <<>>, readyQueue |-> <<>>, blockedQueue |-> blockedQueue,
      terminatedThreads |-> <<>>, cpuCores |-> <<>>,
      semaphores |-> EmptyMap, monitors |-> EmptyMap, clockTick |-> 0,
      userThreadCount |-> 0, kernelThreadCount |-> 0, tickLog |-> <<>>,
      nextId |-> 1, scheduler |-> scheduler, threadingModel |-> threadingModel ]

reset ==
    [ threads |-> <<>>, readyQueue |-> <<>>, blockedQueue |-> <<>>,
      terminatedThreads |-> <<>>, cpuCores |-> <<>>,
      semaphores |-> EmptyMap, monitors |-> EmptyMap, clockTick |-> 0,
      userThreadCount |-> 0, kernelThreadCount |-> 0, tickLog |-> <<>>,
      nextId |-> 1, scheduler |-> scheduler, threadingModel |-> threadingModel ]

\* SimulationEngine.initialize: the fields of the engine after the call
initialize(numCores, schedulingAlgo, timeQuantum, model) ==
    [reset EXCEPT !.cpuCores = [ i \in 1..numCores |-> CPUCore ],
                  !.scheduler = Scheduler(schedulingAlgo, timeQuantum),
                  !.threadingModel = model]

\* engine.reset(); engine.initialize(numCores, schedulingAlgo, timeQuantum, model)
ResetInitialize(numCores, schedulingAlgo, timeQuantum, model) ==
    LET e == initialize(numCores, schedulingAlgo, timeQuantum, model)
    IN  /\ clockTick' = e.clockTick
        /\ threads' = e.threads
        /\ readyQueue' = e.readyQueue
        /\ blockedQueue' = e.blockedQueue
        /\ terminatedThreads' = e.terminatedThreads
        /\ cpuCores' = e.cpuCores
        /\ semaphores' = e.semaphores
        /\ monitors' = e.monitors
        /\ scheduler' = e.scheduler
        /\ threadingModel' = e.threadingModel
        /\ userThreadCount' = e.userThreadCount
        /\ kernelThreadCount' = e.kernelThreadCount
        /\ nextId' = e.nextId
        /\ tickLog' = e.tickLog
        /\ threw' = FALSE
        /\ UNCHANGED <<heap, pending>>

ResetInitializeAny ==
    \E n \in CoreCounts, a \in Algorithms, q \in Quanta, m \in ThreadingModels :
        ResetInitialize(n, a, q, m)

AddResetThread ==
    /\ Len(heap) < ResetMaxThreads
    /\ \E n \in 0..ResetMaxLen : AddThread(DefaultPriority, AnyProgram(n))

TickReset ==
    /\ clockTick < ResetMaxClock
    /\ \E inputs \in InputsFrom(InstrSet) : Tick(inputs)

NextReset == AddResetThread \/ AdmitCallback \/ TickReset \/ ResetInitializeAny

SpecReset == Init /\ [][NextReset]_vars

-----------------------------------------------------------------------------
(* Properties. *)

IsTick == clockTick' = clockTick + 1

\* thread t consumed an instruction in this step
Executed(t) == heap'[t].currentInstruction = heap[t].currentInstruction + 1

\* this tick logged 'preempted' / 'blocked' for thread t
PreemptedNow(t) == InSeq(LogEntry("preempted", t), tickLog')

BlockedNow(t) == InSeq(LogEntry("blocked", t), tickLog')

OnCore(cores, t) == \E c \in DOMAIN cores : cores[c].currentThread = t

(* C1: TERMINATED is absorbing: no step takes a thread whose state is      *)
(* TERMINATED to another state.                                            *)
C1_TerminatedAbsorbing ==
    [][ \A t \in DOMAIN heap :
            heap[t].state = "TERMINATED" => heap'[t].state = "TERMINATED" ]_vars

(* C2: tick() is total: no tick() call raises an error.                    *)
C2_TickTotal == threw = FALSE

\* waitQueue.length == max(0, -value) for every semaphore of the registry
QueueLengthsMatch(sems) ==
    \A x \in DOMAIN sems :
        Len(sems[x].waitQueue) = (IF sems[x].value < 0 THEN 0 - sems[x].value ELSE 0)

(* C3: for every semaphore (registered with a non-negative initial value)  *)
(* the length of its wait queue equals max(0, -value), in every state and, *)
(* whatever instructions the running threads execute next, after the wait  *)
(* or signal of each core in the next tick.                                *)
C3_SemaphoreQueueLength ==
    /\ QueueLengthsMatch(semaphores)
    /\ \A inputs \in [DOMAIN cpuCores -> InstrSet] :
          \A k \in 1..Len(cpuCores) :
              QueueLengthsMatch(TickAfterCore(k, inputs).semaphores)

\* both threads are queued on the semaphore, and a signal has released one before
C3_Witness ==
    \E x \in DOMAIN semaphores :
        /\ Len(semaphores[x].waitQueue) >= 1
        /\ \E t \in DOMAIN heap :
              /\ heap[t].currentInstruction >= 1
              /\ ~InSeq(t, semaphores[x].waitQueue)
              /\ heap[t].waitTime > 0

(* C4: for every thread remainingTime + currentInstruction = burstTime,    *)
(* and the cursor never decreases and never exceeds burstTime.             *)
C4_CursorAccounting ==
    /\ [](\A t \in DOMAIN heap :
            /\ heap[t].remainingTime + heap[t].currentInstruction = heap[t].burstTime
            /\ heap[t].currentInstruction <= heap[t].burstTime)
    /\ [][ \A t \in DOMAIN heap :
            heap'[t].currentInstruction >= heap[t].currentInstruction ]_vars

\* a thread in the middle of its list, after a tick
C4_Witness ==
    \E t \in DOMAIN heap :
        /\ heap[t].currentInstruction >= 1
        /\ heap[t].remainingTime >= 1
        /\ clockTick >= 2

AllTerminated == \A t \in DOMAIN heap : heap[t].state = "TERMINATED"

(* C8: in the Producer-Consumer scenario, once both threads have been      *)
(* admitted (by tick PCMaxEarlyTicks at the latest), PCTickBound further   *)
(* ticks are enough for Producer and Consumer to be both TERMINATED.       *)
C8_ProducerConsumerTerminates ==
    (pending = <<>> /\ clockTick >= PCMaxEarlyTicks + PCTickBound) => AllTerminated

\* both threads ran their twelve instructions and are in terminatedThreads
C8_Witness ==
    /\ pending = <<>>
    /\ AllTerminated
    /\ \A t \in {Producer, Consumer} :
          /\ heap[t].currentInstruction = 12
          /\ InSeq(t, terminatedThreads)

\* number of units of semaphore x thread t holds: its completed acquires of
\* x minus its signals of x (a thread in the wait queue has executed its
\* 'wait' but not acquired)
HeldBy(h, sems, t, x) ==
    LET done == 1..h[t].currentInstruction
        ins  == h[t].instructions
    IN  Cardinality({ i \in done : ins[i] = Instr("wait", x) })
          - Cardinality({ i \in done : ins[i] = Instr("signal", x) })
          - (IF InSeq(t, sems[x].waitQueue) THEN 1 ELSE 0)

Holders(h, sems, x) == { t \in DOMAIN h : HeldBy(h, sems, t, x) >= 1 }

\* the engine as thread t's instruction of this tick finds it
BeforeExec(t) ==
    LET c == FindCore(cpuCores, t)
    IN  IF c <= 1 THEN TickStart ELSE TickAfterCore(c - 1, NoInputs)

(* C9: in the Producer-Consumer scenario the buffer semaphore is held by   *)
(* at most one thread, before and after the instruction of every core in   *)
(* every tick, and a thread that executes 'signal buffer' is the one       *)
(* thread that holds buffer at that moment: it has acquired buffer and not *)
(* yet signalled it, and no other thread has acquired it since.            *)
C9_BufferHeldByOne ==
    [][ IsTick =>
        /\ \A k \in 0..Len(cpuCores) :
              LET e == TickAfterCore(k, NoInputs)
              IN  /\ Cardinality(Holders(e.heap, e.semaphores, "buffer")) <= 1
                  /\ \A t \in DOMAIN heap :
                        HeldBy(e.heap, e.semaphores, t, "buffer") \in {0, 1}
        /\ \A t \in DOMAIN heap :
              ( /\ Executed(t)
                /\ heap[t].instructions[heap'[t].currentInstruction]
                       = Instr("signal", "buffer") )
              => LET e == BeforeExec(t)
                 IN  Holders(e.heap, e.semaphores, "buffer") = {t} ]_vars

\* one thread holds buffer while the other is queued on it
C9_Witness ==
    \E t, u \in DOMAIN heap :
        /\ Holders(heap, semaphores, "buffer") = {t}
        /\ semaphores["buffer"].waitQueue = <<u>>
        /\ heap[u].state = "BLOCKED"

(* C5, as claimed: under round-robin a thread that executes an instruction *)
(* in a tick is preempted in that tick if and only if the number of        *)
(* instructions it has executed since its last dispatch has reached the    *)
(* quantum.                                                                *)
C5_PreemptedIffQuantumReached ==
    [][ IsTick =>
        \A t \in DOMAIN heap :
            Executed(t) =>
                (PreemptedNow(t) <=> heap[t].quantum + 1 >= scheduler.timeQuantum) ]_vars

(* C5, amended: a thread that executes an instruction in a tick is         *)
(* preempted in that tick if and only if its count of instructions since   *)
(* its last dispatch reaches the quantum and the instruction neither       *)
(* completes the thread nor blocks it; the count never exceeds the         *)
(* quantum; a preempted thread has left its core with its counter at 0 and *)
(* is in the ready queue, unless the same tick dispatched it again.        *)
C5_PreemptedAtQuantumUnlessDoneOrBlocked ==
    [][ IsTick =>
        \A t \in DOMAIN heap :
            Executed(t) =>
                /\ heap[t].quantum + 1 <= scheduler.timeQuantum
                /\ PreemptedNow(t) <=>
                        /\ heap[t].quantum + 1 = scheduler.timeQuantum
                        /\ ~isComplete(heap'[t])
                        /\ ~BlockedNow(t)
                /\ PreemptedNow(t) =>
                        /\ heap'[t].quantum = 0
                        /\ \/ /\ heap'[t].state = "READY"
                              /\ InSeq(t, readyQueue')
                              /\ ~OnCore(cpuCores', t)
                           \/ /\ heap'[t].state = "RUNNING"
                              /\ OnCore(cpuCores', t) ]_vars

\* a thread was preempted on its second instruction since its dispatch
C5_Witness ==
    \E t \in DOMAIN heap :
        /\ InSeq(LogEntry("preempted", t), tickLog)
        /\ scheduler.timeQuantum = 2
        /\ heap[t].currentInstruction = 2
        /\ heap[t].state = "READY"

\* the engine inside tick() when the second forEach starts
BeforeDispatch == ManyToOneAdjust(TickAfterCore(Len(cpuCores), NoInputs))

\* the threads the second forEach of this tick took from the ready queue
Dispatched ==
    { t \in Range(BeforeDispatch.readyQueue) : OnCore(cpuCores', t) }

\* position of t in queue q
Pos(q, t) == IndexOf(q, t)

\* thread t goes before thread u in a priority selection from queue q
Before(q, h, t, u) ==
    \/ h[t].priority > h[u].priority
    \/ h[t].priority = h[u].priority /\ Pos(q, t) < Pos(q, u)

(* C6: under the priority algorithm every selection from a non-empty ready *)
(* queue takes a thread of maximal priority, the one at the lowest         *)
(* position among those of maximal priority, and leaves the others in      *)
(* their order: the threads a tick dispatches go before every thread it    *)
(* leaves in the queue, idle cores receive them in selection order, and    *)
(* the queue afterwards is the queue before without them.                  *)
C6_PrioritySelection ==
    [][ IsTick =>
        LET e == BeforeDispatch
            q == e.readyQueue
            idle == { c \in DOMAIN cpuCores : e.cpuCores[c].isIdle }
            D == Dispatched
        IN  /\ Cardinality(D) = (IF Cardinality(idle) < Len(q)
                                 THEN Cardinality(idle) ELSE Len(q))
            /\ \A d \in D : \A r \in Range(q) \ D : Before(q, heap, d, r)
            /\ \A c1, c2 \in idle :
                  ( /\ c1 < c2
                    /\ cpuCores'[c1].currentThread \in D
                    /\ cpuCores'[c2].currentThread \in D )
                  => Before(q, heap, cpuCores'[c1].currentThread,
                                   cpuCores'[c2].currentThread)
            /\ readyQueue' = SelectSeq(q, LAMBDA t : t \notin D) ]_vars

\* a thread has been taken from the middle of a queue of three, ahead of an
\* earlier thread of lower priority and of a later thread of its own priority
C6_Witness ==
    \E t \in DOMAIN heap :
        /\ heap[t].state = "RUNNING"
        /\ Len(readyQueue) = 2
        /\ readyQueue[1] < t
        /\ t < readyQueue[2]
        /\ heap[readyQueue[1]].priority < heap[t].priority
        /\ heap[readyQueue[2]].priority = heap[t].priority

(* C7: under the many-to-one threading model with 4 cores, at most one     *)
(* core has isIdle = FALSE, and at most one thread is RUNNING.             *)
C7_AtMostOneBusyCore ==
    /\ Cardinality({ c \in DOMAIN cpuCores : ~cpuCores[c].isIdle }) <= 1
    /\ Cardinality({ t \in DOMAIN heap : heap[t].state = "RUNNING" }) <= 1

\* philosopher i is BLOCKED on its right fork while it holds its left fork
HoldAndWait(i) ==
    /\ heap[i + 1].state = "BLOCKED"
    /\ HeldBy(heap, semaphores, i + 1, leftFork(i)) = 1
    /\ InSeq(i + 1, semaphores[rightFork(i)].waitQueue)

\* all five philosophers are BLOCKED, each holding its left fork and queued
\* on its right fork
Deadlocked == \A i \in Philosophers : HoldAndWait(i)

AllBlocked == \A t \in DOMAIN heap : heap[t].state = "BLOCKED"

C11_QueuesDisjoint ==
    \A x \in DOMAIN monitors :
        Range(monitors[x].entryQueue) \cap Range(monitors[x].conditionQueue) = {}

\* a thread that waited and was signaled is queued to enter again while
\* another thread waits on the condition
C11_Witness ==
    \E x \in DOMAIN monitors : \E t \in Range(monitors[x].entryQueue) :
        /\ heap[t].currentInstruction >= 3
        /\ Len(monitors[x].conditionQueue) > 0

(* C12: a thread that monitor-signal took from the condition queue owns    *)
(* the monitor again before any thread of the entry queue becomes owner:   *)
(* whatever the running threads execute in the next tick, no core's        *)
(* instruction hands the monitor to a thread of the entry queue while      *)
(* another thread that was signaled has not owned the monitor since.       *)
C12_SignaledBeforeEntrants ==
    \A inputs \in InputsFrom(MonInstrSet) :
        \A k \in 1..Len(cpuCores) : \A x \in DOMAIN monitors :
            LET e0 == TickAfterCore(k - 1, inputs)
                e1 == TickAfterCore(k, inputs)
                u  == e1.monitors[x].owner
            IN  ( /\ u # e0.monitors[x].owner
                  /\ InSeq(u, e0.monitors[x].entryQueue) )
                => e0.monitors[x].signaled \ {u} = {}

(* C13: a step changes a thread's waitTime only by adding exactly 1 in a    *)
(* tick, and only for a thread whose state when the tick begins is READY   *)
(* or BLOCKED; the waitTime of a thread that begins the tick RUNNING, NEW  *)
(* or TERMINATED is unchanged, whatever happens to it during the tick.     *)
C13_WaitTimeOnlyWhenWaiting ==
    [][ \A t \in DOMAIN heap :
            /\ heap'[t].waitTime \in {heap[t].waitTime, heap[t].waitTime + 1}
            /\ heap'[t].waitTime # heap[t].waitTime
                  => IsTick /\ heap[t].state \in {"READY", "BLOCKED"}
            /\ (IsTick /\ InSeq(t, threads) /\ heap[t].state \in {"READY", "BLOCKED"})
                  => heap'[t].waitTime = heap[t].waitTime + 1 ]_vars

\* a thread that has waited and then run for two ticks in which its waitTime
\* did not follow the clock, beside a thread that waited while BLOCKED
C13_Witness ==
    \E t, u \in DOMAIN heap :
        /\ t # u
        /\ heap[t].currentInstruction >= 2
        /\ heap[t].waitTime >= 1 /\ heap[t].waitTime + 2 <= clockTick
        /\ heap[u].state = "BLOCKED" /\ heap[u].waitTime >= 2

(* C14: from any state, reset() followed by initialize(numCores,           *)
(* schedulingAlgo, timeQuantum, model) leaves the clock at 0, the thread    *)
(* list, ready queue, blocked set and terminated list empty, the semaphore  *)
(* and monitor registries empty, the user and kernel thread counters at 0,  *)
(* exactly numCores cores, all idle with busy counter 0, the configured     *)
(* scheduler and threading model, and 1 as the id of the next thread.       *)
C14_ResetInitializeFresh ==
    [][ \A n \in CoreCounts, a \in Algorithms, q \in Quanta, m \in ThreadingModels :
            ResetInitialize(n, a, q, m) =>
                /\ clockTick' = 0
                /\ threads' = <<>> /\ readyQueue' = <<>>
                /\ blockedQueue' = <<>> /\ terminatedThreads' = <<>>
                /\ DOMAIN semaphores' = {} /\ DOMAIN monitors' = {}
                /\ userThreadCount' = 0 /\ kernelThreadCount' = 0
                /\ Len(cpuCores') = n
                /\ \A c \in 1..n : /\ cpuCores'[c].isIdle
                                    /\ cpuCores'[c].currentThread = Null
                                    /\ cpuCores'[c].totalBusyTime = 0
                /\ scheduler' = Scheduler(a, q) /\ threadingModel' = m
                /\ nextId' = 1 ]_vars

\* a fresh engine whose previous run had terminated one thread, blocked
\* another and left an admission callback pending
C14_Witness ==
    /\ clockTick = 0 /\ threads = <<>> /\ blockedQueue = <<>> /\ nextId = 1
    /\ \E t, u \in DOMAIN heap :
          heap[t].state = "TERMINATED" /\ heap[u].state = "BLOCKED"

(* C15: the wait queue of a semaphore is served first in, first out.  A    *)
(* thread in the queue is not running (it is BLOCKED, or was terminated    *)
(* while queued), and whatever the running threads execute in the next     *)
(* tick, each core's instruction either leaves the queue as it is, or adds *)
(* the thread of that core at the tail (it blocks), or removes the head    *)
(* and makes it READY: a thread blocked earlier is released earlier.       *)
C15_SemaphoreFifo ==
    \A x \in DOMAIN semaphores :
        /\ \A t \in Range(semaphores[x].waitQueue) :
               heap[t].state \in {"BLOCKED", "TERMINATED"}
        /\ \A inputs \in InputsFrom(InstrSet) : \A k \in 1..Len(cpuCores) :
               LET e0 == TickAfterCore(k - 1, inputs)
                   e1 == TickAfterCore(k, inputs)
                   q0 == e0.semaphores[x].waitQueue
                   q1 == e1.semaphores[x].waitQueue
               IN  \/ q1 = q0
                   \/ /\ q1 = Append(q0, e0.cpuCores[k].currentThread)
                      /\ e0.heap[e0.cpuCores[k].currentThread].state = "RUNNING"
                      /\ inputs[k] = Instr("wait", x)
                   \/ /\ q0 # <<>> /\ q1 = Tail(q0)
                      /\ inputs[k] = Instr("signal", x)
                      /\ e1.heap[Head(q0)].state = "READY"
                      /\ InSeq(Head(q0), e1.readyQueue)

\* two threads were queued (the value went down to -2); one of them has been
\* released and is READY, the instruction that blocked it being its only
\* one so far, and the other is still queued
C15_Witness ==
    \E x \in DOMAIN semaphores : \E t \in DOMAIN heap :
        /\ Len(semaphores[x].waitQueue) >= 1
        /\ semaphores[x].value = -1
        /\ ~InSeq(t, semaphores[x].waitQueue)
        /\ heap[t].state = "READY" /\ heap[t].currentInstruction = 1
        /\ heap[t].instructions # <<>>
        /\ scheduler.algorithm = "fcfs" /\ heap[t].waitTime >= 3

(* C16: a wait, signal, enter-monitor, exit-monitor, monitor-wait or       *)
(* monitor-signal whose resource is not registered (for that kind of       *)
(* resource) consumes the instruction -- cursor +1, remainingTime -1,      *)
(* quantum +1 and no other field of the thread -- and changes nothing      *)
(* else of the engine: the thread is not blocked and keeps its core.       *)
C16_UnknownResourceNoOp ==
    \A c \in DOMAIN cpuCores : Reads(c) =>
        LET t  == cpuCores[c].currentThread
            th == TickStart.heap[t]
            E  == [TickStart EXCEPT !.heap[t] = execute(th)]
        IN  /\ execute(th) = [th EXCEPT !.currentInstruction = @ + 1,
                                        !.remainingTime = @ - 1,
                                        !.quantum = @ + 1]
            /\ \A ty \in SyncTypes : \A r \in {"s", "m", UnknownResource} :
                  LET known == IF ty \in {"wait", "signal"}
                               THEN DOMAIN E.semaphores ELSE DOMAIN E.monitors
                      E1 == executeInstruction(E, t, Instr(ty, r))
                  IN  r \notin known =>
                        /\ E1 = E
                        /\ E1.heap[t].state = "RUNNING"
                        /\ E1.cpuCores[c].currentThread = t

\* a thread has executed a wait on the unregistered name and is RUNNING on
\* a core, due to read its next instruction, while another thread is
\* BLOCKED by its wait on the registered semaphore
C16_Witness ==
    \E c \in DOMAIN cpuCores : \E u \in DOMAIN heap :
        /\ Reads(c)
        /\ LET th == heap[cpuCores[c].currentThread]
           IN  /\ th.currentInstruction = 1
               /\ th.instructions[1] = Instr("wait", UnknownResource)
               /\ th.state = "RUNNING"
        /\ heap[u].state = "BLOCKED" /\ heap[u].instructions[1] = Instr("wait", "s")

(* C17: monitor-wait executed by a thread that does not own the monitor    *)
(* is a no-op that reports 'not blocked': whatever the cores served before *)
(* it in the same tick have executed, it leaves the owner, the entry queue *)
(* and the condition queue as they are, wakes no thread, and the caller    *)
(* keeps its core and is not BLOCKED.  (The cores before core c are given  *)
(* every choice of instructions; the last core's own is not needed.)       *)
C17_WaitByNonOwnerNoOp ==
    \A inputs \in { f \in InputsFrom(MonInstrSet) : f[Len(cpuCores)] = Compute } :
        \A c \in DOMAIN cpuCores : \A x \in DOMAIN monitors :
            LET e0 == TickAfterCore(c - 1, inputs)
                t  == cpuCores[c].currentThread
                E  == [e0 EXCEPT !.heap[t] = execute(@)]
                w  == MonitorWait(E.monitors[x], t)
                E1 == executeInstruction(E, t, Instr("monitor-wait", x))
            IN  (Reads(c) /\ ~e0.threw /\ e0.monitors[x].owner # t) =>
                    /\ ~w.currentBlocked /\ w.nextThread = Null
                    /\ E1.monitors[x].owner = e0.monitors[x].owner
                    /\ E1.monitors[x].entryQueue = e0.monitors[x].entryQueue
                    /\ E1.monitors[x].conditionQueue = e0.monitors[x].conditionQueue
                    /\ E1.cpuCores[c].currentThread = t /\ ~E1.cpuCores[c].isIdle
                    /\ E1.heap[t].state = "RUNNING"
                    /\ E1.blockedQueue = e0.blockedQueue
                    /\ E1 = E

\* a RUNNING thread with instructions left that does not own the monitor,
\* while another thread owns it and threads wait in both of its queues
C17_Witness ==
    \E c \in DOMAIN cpuCores : \E x \in DOMAIN monitors :
        /\ Reads(c)
        /\ monitors[x].owner \notin {Null, cpuCores[c].currentThread}
        /\ heap[cpuCores[c].currentThread].state = "RUNNING"
        /\ Len(cpuCores) = 2
        /\ monitors[x].owner = cpuCores[3 - c].currentThread
        /\ monitors[x].conditionQueue # <<>>

(* C18: under fcfs and priority there is no time-slicing: in no step does  *)
(* a RUNNING thread become READY by preemption, and a thread leaves its    *)
(* core only by blocking or terminating in that tick, however many         *)
(* instructions it has executed since its dispatch.  (A thread that blocks *)
(* can be woken by a later core of the same tick and is then READY.)       *)
C18_NoTimeSlicing ==
    [][ scheduler.algorithm \in {"fcfs", "priority"} =>
          \A t \in DOMAIN heap :
              /\ ~PreemptedNow(t)
              /\ (heap[t].state = "RUNNING" /\ heap'[t].state = "READY")
                    => BlockedNow(t)
              /\ (OnCore(cpuCores, t) /\ ~OnCore(cpuCores', t))
                    => \/ BlockedNow(t)
                       \/ heap'[t].state = "TERMINATED" ]_vars

\* a thread still RUNNING on its core under fcfs or priority after
\* executing as many instructions since its dispatch as the quantum, where
\* round-robin preempts
C18_Witness ==
    \E t \in DOMAIN heap :
        /\ scheduler.algorithm \in {"fcfs", "priority"}
        /\ heap[t].state = "RUNNING" /\ OnCore(cpuCores, t)
        /\ heap[t].quantum >= scheduler.timeQuantum

(* C19: a thread that becomes TERMINATED in a tick has executed its last   *)
(* instruction in that tick (or has none), its completionTime is the clock *)
(* of that tick and its turnaroundTime is completionTime - arrivalTime;    *)
(* no later step changes either of them.                                   *)
C19_CompletionTimeFinal ==
    [][ \A t \in DOMAIN heap :
            /\ (heap[t].state # "TERMINATED" /\ heap'[t].state = "TERMINATED") =>
                  /\ IsTick
                  /\ Executed(t) \/ heap[t].instructions = <<>>
                  /\ isComplete(heap'[t])
                  /\ heap'[t].completionTime = clockTick'
                  /\ heap'[t].turnaroundTime = clockTick' - heap'[t].arrivalTime
            /\ InSeq(t, terminatedThreads) =>
                  /\ heap'[t].completionTime = heap[t].completionTime
                  /\ heap'[t].turnaroundTime = heap[t].turnaroundTime ]_vars

(* C20: exit-monitor, whatever the cores served before it in the same tick *)
(* have executed: when the condition queue is non-empty its head becomes   *)
(* the owner, leaves the blocked set and is READY on the ready queue, and  *)
(* the entry queue is unchanged, empty or not; when the condition queue is *)
(* empty and the entry queue is not, the head of the entry queue becomes   *)
(* the owner in the same way; the monitor is left free only when both      *)
(* queues are empty.                                                       *)
C20_ExitPrefersConditionQueue ==
    \A inputs \in { f \in InputsFrom(MonInstrSet) : f[Len(cpuCores)] = Compute } :
        \A c \in DOMAIN cpuCores : \A x \in DOMAIN monitors :
            LET e0 == TickAfterCore(c - 1, inputs)
                t  == cpuCores[c].currentThread
                E  == [e0 EXCEPT !.heap[t] = execute(@)]
                E1 == executeInstruction(E, t, Instr("exit-monitor", x))
                m0 == e0.monitors[x]
                m1 == E1.monitors[x]
                Woken(h) == /\ m1.owner = h
                            /\ E1.heap[h].state = "READY"
                            /\ InSeq(h, E1.readyQueue)
                            /\ ~InSeq(h, E1.blockedQueue)
            IN  (Reads(c) /\ ~e0.threw) =>
                    IF m0.conditionQueue # <<>>
                    THEN /\ Woken(Head(m0.conditionQueue))
                         /\ m1.conditionQueue = Tail(m0.conditionQueue)
                         /\ m1.entryQueue = m0.entryQueue
                    ELSE IF m0.entryQueue # <<>>
                    THEN /\ Woken(Head(m0.entryQueue))
                         /\ m1.entryQueue = Tail(m0.entryQueue)
                         /\ m1.conditionQueue = <<>>
                    ELSE /\ m1.owner = Null
                         /\ m1.entryQueue = <<>> /\ m1.conditionQueue = <<>>
                         /\ E1.readyQueue = E.readyQueue

\* the owner of the monitor is RUNNING with instructions left while one
\* thread waits on the condition and another waits to enter
C20_Witness ==
    \E c \in DOMAIN cpuCores : \E x \in DOMAIN monitors :
        /\ Reads(c)
        /\ monitors[x].owner = cpuCores[c].currentThread
        /\ heap[cpuCores[c].currentThread].state = "RUNNING"
        /\ monitors[x].conditionQueue # <<>>
        /\ monitors[x].entryQueue # <<>>
        /\ \A t \in Range(monitors[x].conditionQueue) \cup Range(monitors[x].entryQueue) :
              heap[t].state = "BLOCKED"

(* C21: monitor-wait executed by the owner of the monitor, whatever the    *)
(* cores served before it in the same tick have executed: the caller is    *)
(* appended to the tail of the condition queue, released from its core,    *)
(* BLOCKED and in the blocked set; if the entry queue is non-empty its     *)
(* head becomes the owner by the same instruction, leaves the blocked set  *)
(* and is READY on the ready queue; otherwise the monitor is free.         *)
C21_WaitByOwnerHandsOver ==
    \A inputs \in { f \in InputsFrom(MonInstrSet) : f[Len(cpuCores)] = Compute } :
        \A c \in DOMAIN cpuCores : \A x \in DOMAIN monitors :
            LET e0 == TickAfterCore(c - 1, inputs)
                t  == cpuCores[c].currentThread
                E  == [e0 EXCEPT !.heap[t] = execute(@)]
                E1 == executeInstruction(E, t, Instr("monitor-wait", x))
                m0 == e0.monitors[x]
                m1 == E1.monitors[x]
            IN  (Reads(c) /\ ~e0.threw /\ m0.owner = t) =>
                    /\ m1.conditionQueue = Append(m0.conditionQueue, t)
                    /\ E1.cpuCores[c].currentThread = Null /\ E1.cpuCores[c].isIdle
                    /\ E1.heap[t].state = "BLOCKED"
                    /\ InSeq(t, E1.blockedQueue)
                    /\ IF m0.entryQueue # <<>>
                       THEN LET h == Head(m0.entryQueue)
                            IN  /\ m1.owner = h
                                /\ m1.entryQueue = Tail(m0.entryQueue)
                                /\ E1.heap[h].state = "READY"
                                /\ InSeq(h, E1.readyQueue)
                                /\ ~InSeq(h, E1.blockedQueue)
                       ELSE /\ m1.owner = Null
                            /\ m1.entryQueue = <<>>
                            /\ E1.readyQueue = E.readyQueue

\* the owner of the monitor is RUNNING with instructions left while a
\* thread waits on the condition already and another is BLOCKED in the
\* entry queue
C21_Witness ==
    \E c \in DOMAIN cpuCores : \E x \in DOMAIN monitors :
        /\ Reads(c)
        /\ monitors[x].owner = cpuCores[c].currentThread
        /\ Len(monitors[x].conditionQueue) = 1
        /\ Len(monitors[x].entryQueue) = 1
        /\ heap[Head(monitors[x].entryQueue)].state = "BLOCKED"
        /\ InSeq(Head(monitors[x].entryQueue), blockedQueue)

(* C22: in a tick the cursor of a thread advances by exactly one if the    *)
(* thread is the current thread of a busy core and not complete when the   *)
(* tick begins, and by zero otherwise: a thread dispatched, preempted and  *)
(* dispatched again, or unblocked in the tick executes nothing more in it. *)
C22_OneInstructionPerTick ==
    [][ IsTick =>
          \A t \in DOMAIN heap :
              heap'[t].currentInstruction =
                  heap[t].currentInstruction +
                  (IF /\ \E c \in DOMAIN cpuCores :
                            ~cpuCores[c].isIdle /\ cpuCores[c].currentThread = t
                      /\ ~isComplete(heap[t])
                   THEN 1 ELSE 0) ]_vars

\* the number of places thread t has in the wait queues of the semaphores
\* and in the entry and condition queues of the monitors
RECURSIVE QueuePlacesIn(_, _, _)
QueuePlacesIn(t, sems, mons) ==
    IF sems # {}
    THEN LET x == CHOOSE y \in sems : TRUE
         IN  Count(t, semaphores[x].waitQueue) + QueuePlacesIn(t, sems \ {x}, mons)
    ELSE IF mons # {}
    THEN LET x == CHOOSE y \in mons : TRUE
         IN  Count(t, monitors[x].entryQueue) + Count(t, monitors[x].conditionQueue)
               + QueuePlacesIn(t, sems, mons \ {x})
    ELSE 0

QueuePlaces(t) == QueuePlacesIn(t, DOMAIN semaphores, DOMAIN monitors)

CoresOf(t) == { c \in DOMAIN cpuCores : cpuCores[c].currentThread = t }

\* thread t is where its state says, and nowhere else
InPlace(t) ==
    LET st == heap[t].state
    IN  /\ Count(t, readyQueue) = (IF st = "READY" THEN 1 ELSE 0)
        /\ Cardinality(CoresOf(t)) = (IF st = "RUNNING" THEN 1 ELSE 0)
        /\ \A c \in CoresOf(t) : ~cpuCores[c].isIdle
        /\ InSeq(t, blockedQueue) <=> st = "BLOCKED"
        /\ QueuePlaces(t) = (IF st = "BLOCKED" THEN 1 ELSE 0)
        /\ InSeq(t, terminatedThreads) <=> st = "TERMINATED"

(* C23: between ticks every thread of the thread list is in exactly one    *)
(* place, the one its state names: NEW nowhere; READY once in the ready    *)
(* queue; RUNNING on one core; BLOCKED in the blocked set and in one       *)
(* semaphore or monitor queue; TERMINATED in the terminated list and in no *)
(* queue, blocked set or core.                                             *)
C23_OnePlacePerState ==
    \A t \in Range(threads) : InPlace(t)

\* SimulationEngine.getStatistics, the counts (the averages are not modelled)
getStatistics ==
    [ clockTicks |-> clockTick,
      activeThreads |-> Len(threads) - Len(terminatedThreads),
      completedThreads |-> Len(terminatedThreads) ]

(* C24: the terminated list holds each thread at most once, so that        *)
(* completedThreads of getStatistics() is the number of threads of the     *)
(* thread list whose state is TERMINATED, and activeThreads is not         *)
(* negative.                                                               *)
C24_TerminatedListNoDuplicates ==
    /\ \A t \in DOMAIN heap : Count(t, terminatedThreads) <= 1
    /\ getStatistics.completedThreads =
          Cardinality({ t \in Range(threads) : heap[t].state = "TERMINATED" })
    /\ getStatistics.activeThreads >= 0

(* C25: whatever the interleaving of addThread, its admission callback,    *)
(* tick and reset + initialize, every thread in the ready queue, on a      *)
(* core, in the blocked set or in the terminated list belongs to the       *)
(* engine's current thread list.                                           *)
C25_NoThreadAcrossReset ==
    ( Range(readyQueue) \cup Range(blockedQueue) \cup Range(terminatedThreads)
        \cup { cpuCores[c].currentThread : c \in DOMAIN cpuCores } ) \ {Null}
      \subseteq Range(threads)

(* C26: exit-monitor executed by a thread that is not the owner of the     *)
(* monitor, whatever the cores served before it in the same tick have      *)
(* executed, leaves the owner, the entry queue and the condition queue of  *)
(* the monitor unchanged.                                                  *)
C26_ExitByNonOwnerNoOp ==
    \A inputs \in { f \in InputsFrom(MonInstrSet) : f[Len(cpuCores)] = Compute } :
        \A c \in DOMAIN cpuCores : \A x \in DOMAIN monitors :
            LET e0 == TickAfterCore(c - 1, inputs)
                t  == cpuCores[c].currentThread
                E  == [e0 EXCEPT !.heap[t] = execute(@)]
                E1 == executeInstruction(E, t, Instr("exit-monitor", x))
            IN  (Reads(c) /\ ~e0.threw /\ e0.monitors[x].owner # t) =>
                    /\ E1.monitors[x].owner = e0.monitors[x].owner
                    /\ E1.monitors[x].entryQueue = e0.monitors[x].entryQueue
                    /\ E1.monitors[x].conditionQueue = e0.monitors[x].conditionQueue

(* C27: dispatch is work-conserving: after every tick that completes,      *)
(* under every algorithm and threading model, the ready queue is empty or  *)
(* no core is idle.                                                        *)
C27_WorkConserving ==
    [][ (IsTick /\ ~threw') =>
            \/ readyQueue' = <<>>
            \/ \A c \in DOMAIN cpuCores' : ~cpuCores'[c].isIdle ]_vars

\* under many-to-one, after ticks in which instructions were executed, both
\* cores are busy and a thread that has been READY through two ticks is
\* left in the ready queue
C27_Witness ==
    /\ threadingModel = "many-to-one"
    /\ Len(cpuCores) = 2
    /\ readyQueue # <<>>
    /\ heap[Head(readyQueue)].waitTime >= 2
    /\ heap[Head(readyQueue)].currentInstruction = 0
    /\ \A c \in DOMAIN cpuCores :
          /\ ~cpuCores[c].isIdle
          /\ cpuCores[c].currentThread # Null
          /\ cpuCores[c].totalBusyTime >= 1

(* C28: with compute instructions only, under each of the three            *)
(* algorithms, once every admission callback has fired every thread is     *)
(* TERMINATED after at most ComputeTickBound further ticks (one to         *)
(* dispatch, one per instruction): no thread starves in the ready queue.   *)
C28_ComputeThreadsTerminate ==
    (pending = <<>> /\ clockTick >= ComputeMaxEarlyTicks + ComputeTickBound)
        => AllTerminated

\* three threads of different priorities, two instructions each, the
\* lowest priority admitted first, are all TERMINATED, each once
C28_Witness ==
    /\ pending = <<>> /\ Len(heap) = 3
    /\ AllTerminated
    /\ scheduler.algorithm = "priority"
    /\ Len(cpuCores) = 1
    /\ \A t \in DOMAIN heap :
          /\ heap[t].currentInstruction = 2
          /\ Count(t, terminatedThreads) = 1
    /\ heap[1].priority < heap[2].priority /\ heap[2].priority < heap[3].priority
    /\ heap[1].completionTime = ComputeMaxEarlyTicks + ComputeTickBound

=============================================================================
